---- MODULE Spec2Model ----
(***************************************************************************)
(* D35 Scan-to-PDF: the scan-acquisition and page-assembly workflow of     *)
(* scanner_app.py (ScannerApp, the Flet front end) and scanner_cli.py      *)
(* (the command-line front end).                                           *)
(*                                                                         *)
(* The host is modelled by its observable outcomes: the result of every    *)
(* subprocess call is an input of the action that makes the call, the      *)
(* drop folder (~/Desktop) is a set of file names the user adds to, and    *)
(* the file system is the set of existing scratch directories and the set  *)
(* of files inside them.                                                   *)
(***************************************************************************)
EXTENDS Integers, Sequences, FiniteSets, TLC

(***************************************************************************)
(* Bounds of the model                                                     *)
(***************************************************************************)
\* acquisitions started in one run (also bounds the logical clock)
MaxScans == 3
\* lines of output of `imagecapture -list`
MaxLines == 2
\* concurrently running scan_page handlers in the interleaved specification
MaxThreads == 2

(***************************************************************************)
(* Program constants                                                       *)
(***************************************************************************)
\* for i in range(30) in handle_manual_import
PollLimit == 30
\* points per inch in the geometry computation
PointsPerInch == 72

Resolutions == {150, 300, 600}
DefaultResolution == 300

(***************************************************************************)
(* Strings the code inspects, as finite tables                             *)
(***************************************************************************)
\* lines the host may print for `imagecapture -list`
HostLines == {"Devices:", "", "EPSON D35", " EPSON_D35"}

\* str.strip() on the lines of HostLines
Strip(line) == IF line = " EPSON_D35" THEN "EPSON_D35" ELSE line

\* line.startswith('Devices:')
StartsWithDevices(line) == line = "Devices:"

\* f'ic_{device_name.replace(" ", "_")}'
IcId(device_name) ==
    CASE device_name = "EPSON D35" -> "ic_EPSON_D35"
      [] device_name = "EPSON_D35" -> "ic_EPSON_D35"
      [] OTHER -> "ic_" \o device_name

\* f'Image Capture: {device_name}'
IcLabel(device_name) == "Image Capture: " \o device_name

\* id.startswith('ic_')
StartsWithIc(id) == id \in {IcId(Strip(l)) : l \in HostLines}

\* str.lower() on a file extension
Lower(ext) ==
    CASE ext = "PNG" -> "png"
      [] ext = "JPG" -> "jpg"
      [] OTHER -> ext

\* the extensions handle_manual_import recognizes
RecognizedExts == {"png", "jpg", "jpeg", "pdf", "tiff", "tif"}

NoDevice == [id |-> "", name |-> "", type |-> ""]
AppleScriptDevice ==
    [id |-> "image_capture_applescript",
     name |-> "Image Capture (AppleScript)", type |-> "scanner"]
ManualDevice ==
    [id |-> "manual_import",
     name |-> "Manual Import (from Desktop)", type |-> "manual"]

(***************************************************************************)
(* Device enumeration                                                      *)
(***************************************************************************)
\* outcome of subprocess.run(['which', 'imagecapture'])
WhichOutcomes == {"present", "absent", "raises"}

\* outcome of subprocess.run(['imagecapture', '-list'], timeout=...)
Stdouts == UNION {[1..n -> HostLines] : n \in 0..MaxLines}
ListOutcomes ==
    [kind : {"ok"}, stdout : Stdouts]
        \cup [kind : {"nonzero", "timeout", "raises"}, stdout : {<<>>}]

\* ic_list_result.stdout.strip() is non-empty
NonBlank(stdout) == \E k \in 1..Len(stdout) : Strip(stdout[k]) # ""

\* the names kept by: if line.strip() and not line.startswith('Devices:')
IsDeviceLine(line) == Strip(line) # "" /\ ~StartsWithDevices(line)
DeviceNames(stdout) ==
    LET kept == SelectSeq(stdout, IsDeviceLine)
    IN  [k \in 1..Len(kept) |-> Strip(kept[k])]

IcDevice(device_name) ==
    [id |-> IcId(device_name), name |-> IcLabel(device_name),
     type |-> "scanner"]

\* the native entries appended by refresh_scanners (lines 191-216)
NativeDevices(which, q) ==
    IF which = "present" /\ q.kind = "ok" /\ NonBlank(q.stdout)
    THEN LET names == DeviceNames(q.stdout)
         IN  [k \in 1..Len(names) |-> IcDevice(names[k])]
    ELSE <<>>

\* the two entries refresh_scanners always appends (lines 218-244)
FallbackDevices == <<AppleScriptDevice, ManualDevice>>

\* an exception of the probe or of the query reaches the outer handler
RefreshRaises(which, q) ==
    which = "raises" \/ (which = "present" /\ q.kind = "raises")

\* scanner_devices after refresh_scanners: cleared first, then filled
\* unless an exception cut the handler short
RefreshedDevices(which, q) ==
    IF RefreshRaises(which, q) THEN <<>>
    ELSE NativeDevices(which, q) \o FallbackDevices

\* the probe of list_scanners runs outside its try block (line 26)
ListScannersRaises(which) == which = "raises"

\* the list returned by the command-line list_scanners
ListScannersResult(which, q) ==
    IF which = "absent" THEN <<>>
    ELSE IF q.kind = "timeout" THEN <<"Auto-detect">>
    ELSE IF q.kind = "raises" THEN <<>>
    ELSE IF q.kind = "ok" /\ NonBlank(q.stdout) THEN DeviceNames(q.stdout)
    ELSE <<"Auto-detect">>

(***************************************************************************)
(* Files                                                                   *)
(***************************************************************************)
\* pixel sizes a scanned sheet may have
Dims == {<<2550, 3300>>, <<1275, 1650>>}

\* a path is [dir, name]; a name is [base, num, ext]; a file is a path
\* with the encoding of its content, its pixel size and its mtime
ScanName(n) == [base |-> "scan", num |-> n, ext |-> "png"]
TempName(ts, ext) == [base |-> "temp", num |-> ts, ext |-> ext]
NativeName(ts) == [base |-> "scan_ts", num |-> ts, ext |-> "jpg"]
OtherName(ts) == [base |-> "IMG", num |-> ts, ext |-> "jpeg"]
PageName(page_num, ts) ==
    [base |-> "page", num |-> page_num * 100 + ts, ext |-> "jpg"]

\* os.path.join(dir, name)
Join(dir, name) == [dir |-> dir, name |-> name]
NoPath == Join(0, [base |-> "", num |-> 0, ext |-> ""])

PathOf(f) == Join(f.dir, f.name)
Exists(fs, p) == \E f \in fs : PathOf(f) = p
FileAt(fs, p) == CHOOSE f \in fs : PathOf(f) = p
Remove(fs, p) == {f \in fs : PathOf(f) # p}
WriteFile(fs, f) == Remove(fs, PathOf(f)) \cup {f}
InDir(fs, d) == {f \in fs : f.dir = d}

\* Image.open succeeds on raster encodings only
Decodable(f) == f.enc \in {"jpeg", "png", "tiff"}

\* the user's drop folder: the names that may appear there, and what
\* each of them holds
DesktopNames ==
    {[base |-> "Scan", num |-> 1, ext |-> "jpg"],
     [base |-> "Scan", num |-> 2, ext |-> "PNG"],
     [base |-> "Scan", num |-> 3, ext |-> "pdf"],
     [base |-> "notes", num |-> 4, ext |-> "txt"]}
DesktopEnc(name) ==
    CASE Lower(name.ext) = "jpg" -> "jpeg"
      [] Lower(name.ext) = "png" -> "png"
      [] Lower(name.ext) = "pdf" -> "pdf"
      [] OTHER -> "text"
DesktopDims(name) ==
    IF name.num = 1 THEN <<2550, 3300>> ELSE <<1275, 1650>>

\* Recognized without the test of the extension
RecognizedWhateverExtension(name) == name.ext = name.ext

\* new_file.lower().endswith(('.png', '.jpg', '.jpeg', '.pdf', ...))
Recognized(name) == Lower(name.ext) \in RecognizedExts

\* shutil.copy2(source_path, dest_path) into the scratch directory
CopyIn(fs, name, dir, ts, now) ==
    WriteFile(fs, [dir |-> dir, name |-> TempName(ts, name.ext),
                   enc |-> DesktopEnc(name), dims |-> DesktopDims(name),
                   mtime |-> now])

\* Normalize with a rename that loses the file
NormalizeLosesRenamed(fs, src, png_path, now) ==
    IF ~Exists(fs, src) THEN [ok |-> FALSE, files |-> fs]
    ELSE
    LET f == FileAt(fs, src) IN
    IF Lower(src.name.ext) # "png"
    THEN IF ~Decodable(f) THEN [ok |-> FALSE, files |-> fs]
         ELSE [ok |-> TRUE,
               files |-> Remove(WriteFile(fs, [dir |-> png_path.dir,
                                  name |-> png_path.name, enc |-> "png",
                                  dims |-> f.dims, mtime |-> now]), src)]
    ELSE [ok |-> TRUE, files |-> Remove(fs, src)]

\* "convert to PNG and add to list" (scanner_app.py 312-322): the file
\* system afterwards, and whether the step raised
Normalize(fs, src, png_path, now) ==
    IF ~Exists(fs, src) THEN [ok |-> FALSE, files |-> fs]
    ELSE
    LET f == FileAt(fs, src) IN
    IF Lower(src.name.ext) # "png"
    THEN IF ~Decodable(f) THEN [ok |-> FALSE, files |-> fs]
         ELSE LET saved == WriteFile(fs, [dir |-> png_path.dir,
                                name |-> png_path.name, enc |-> "png",
                                dims |-> f.dims, mtime |-> now])
              IN  [ok |-> TRUE,
                   files |-> IF src # png_path /\ Exists(saved, src)
                             THEN Remove(saved, src) ELSE saved]
    ELSE IF src # png_path
         THEN [ok |-> TRUE,
               files |-> WriteFile(Remove(fs, src),
                            [f EXCEPT !.dir = png_path.dir,
                                      !.name = png_path.name])]
         ELSE [ok |-> TRUE, files |-> fs]

(***************************************************************************)
(* The native capture command                                              *)
(***************************************************************************)
\* what subprocess.run(['imagecapture', '-path', ...], timeout=30) did:
\* how it ended, which file it left in the scratch directory, and what
\* that file holds
NativeOutcomes ==
    [exit : {"zero"}, file : {"named"}, enc : {"jpeg"}, dims : Dims]
      \cup [exit : {"zero"}, file : {"named"}, enc : {"bad"},
            dims : {<<0, 0>>}]
      \cup [exit : {"zero"}, file : {"other"}, enc : {"jpeg"},
            dims : {<<1275, 1650>>}]
      \cup [exit : {"zero", "nonzero", "timeout"}, file : {"none"},
            enc : {"none"}, dims : {<<0, 0>>}]

\* the scratch directory after the command ran
BackendWrites(fs, dir, named, other, out, now) ==
    CASE out.file = "named" ->
            WriteFile(fs, [dir |-> dir, name |-> named, enc |-> out.enc,
                           dims |-> out.dims, mtime |-> now])
      [] out.file = "other" ->
            WriteFile(fs, [dir |-> dir, name |-> other, enc |-> out.enc,
                           dims |-> out.dims, mtime |-> now])
      [] OTHER -> fs

\* max(all_files, key=os.path.getmtime): any file of the newest mtime
Newest(cands) == {f \in cands : \A g \in cands : g.mtime <= f.mtime}

\* glob(os.path.join(self.scan_dir, "*.jp*"))
GlobJp(fs, dir) == {f \in InDir(fs, dir) : f.name.ext \in {"jpg", "jpeg"}}

\* the files handle_imagecapture_cmd may return (lines 427-441): the
\* exact name first, else the newest *.jp* file; empty when it raises
NativeFound(fs, dir, named) ==
    IF Exists(fs, Join(dir, named)) THEN {FileAt(fs, Join(dir, named))}
    ELSE Newest(GlobJp(fs, dir))

(***************************************************************************)
(* State                                                                   *)
(***************************************************************************)
VARIABLES
    frontend,             \* which program runs: "gui" or "cli"
    scanner_devices,      \* ScannerApp.scanner_devices
    dropdown_value,       \* scanner_dropdown.value ("" is None)
    selected_device,      \* ScannerApp.selected_device (NoDevice is None)
    scanned_images,       \* the page list, a sequence of paths
    scan_dir,             \* scan_dir / temp_dir, the scratch directory
                          \* (0 is None)
    resolution,           \* resolution_dropdown.value / args.resolution
    scan_btn_disabled,    \* scan_btn.disabled
    save_pdf_btn_disabled,
    clear_btn_disabled,
    status,               \* the last message shown or printed
    dirs,                 \* the scratch directories that exist
    made_dirs,            \* how many directories mkdtemp has made
    files,                \* the files inside scratch directories
    desktop,              \* the names present in the drop folder
    clock,                \* datetime.now(), one tick per acquisition
    acq,                  \* per handler thread: the running scan_page
    output,               \* the document at the target path
    saving,               \* save_as_pdf is between its try and finally
    cli,                  \* the command-line run: where main is, the loop
                          \* variable, the arguments, the results
    last_dpi              \* the '-dpi' argument of the last capture command
                          \* that was run (0: none yet); the program keeps
                          \* no such field

vars == <<frontend, scanner_devices, dropdown_value, selected_device,
          scanned_images, scan_dir, resolution, scan_btn_disabled,
          save_pdf_btn_disabled, clear_btn_disabled, status, dirs,
          made_dirs, files, desktop, clock, acq, output, saving, cli,
          last_dpi>>

Threads == 1..MaxThreads

IdleAcq == [pc |-> "idle", ts |-> 0, i |-> 0, initial_files |-> {},
            before |-> <<>>, dir_before |-> 0]

\* the target path holds no file
NoDoc == [written |-> FALSE, whole |-> FALSE, pages |-> <<>>]

Running == {t \in Threads : acq[t].pc # "idle"}

(***************************************************************************)
(* Document assembly                                                       *)
(***************************************************************************)
RECURSIVE Gcd(_, _)
Gcd(a, b) == IF b = 0 THEN a ELSE Gcd(b, a % b)

\* a length in points is a fraction <<numerator, denominator>> in lowest
\* terms; the code computes it in floating point
Frac(n, d) == LET g == Gcd(n, d) IN <<n \div g, d \div g>>
FracTimes(q, k) == Frac(q[1] * k, q[2])

\* ToPoints with the resolution and the points per inch exchanged
ToPointsInverted(pixels, dpi) ==
    FracTimes(Frac(pixels, PointsPerInch), dpi)

\* (img_width / dpi) * 72
ToPoints(pixels, dpi) == FracTimes(Frac(pixels, dpi), PointsPerInch)

\* canvas.Canvas(pdf_filename, pagesize=(page_width, page_height))
Canvas(page_width, page_height) ==
    [pagesize |-> <<page_width, page_height>>, pages |-> <<>>,
     code |-> <<>>]

\* c.drawImage(img_reader, 0, 0, width=..., height=...)
DrawImage(c, image_path, width, height) ==
    [c EXCEPT !.code = Append(@, [image |-> image_path,
                                  width |-> width, height |-> height])]

\* c.showPage(): closes the current page and starts an empty one
ShowPage(c) ==
    [c EXCEPT !.pages = Append(@, [size |-> c.pagesize,
                                   content |-> c.code]),
              !.code = <<>>]

\* c.save(): closes the page in progress, if any, and writes the file
SaveCanvas(c) ==
    [written |-> TRUE, whole |-> TRUE,
     pages |-> (IF Len(c.code) > 0 THEN ShowPage(c) ELSE c).pages]

\* how c.save() may end: the file is written; the target cannot be opened
\* for writing; the write stops after the target was opened
SaveOutcomes == {"ok", "open_fails", "write_fails"}

\* the file a write leaves behind when it stops half-way
PartialDoc == [written |-> TRUE, whole |-> FALSE, pages |-> <<>>]

\* what the target path holds after c.save() ended as s: the code gives
\* the target path itself to the canvas, and its except block removes
\* nothing
WrittenAt(prev, doc, s) ==
    CASE s = "ok" -> doc
      [] s = "open_fails" -> prev
      [] OTHER -> PartialDoc

\* NoPages without the test
NoPagesNever(images) == FALSE

\* if not self.scanned_images / if not images
NoPages(images) == images = <<>>

\* Image.open(path) succeeds
Opens(fs, p) == Exists(fs, p) /\ Decodable(FileAt(fs, p))

\* DrawPages without the page breaks
RECURSIVE DrawPagesWithoutBreaks(_, _, _, _)
DrawPagesWithoutBreaks(c, fs, images, idx) ==
    IF idx >= Len(images) THEN [ok |-> TRUE, canvas |-> c]
    ELSE IF ~Opens(fs, images[idx + 1]) THEN [ok |-> FALSE, canvas |-> c]
    ELSE DrawPagesWithoutBreaks(
             DrawImage(c, images[idx + 1], c.pagesize[1], c.pagesize[2]),
             fs, images, idx + 1)

\* for idx, image_path in enumerate(images): ... (from index idx on)
RECURSIVE DrawPages(_, _, _, _)
DrawPages(c, fs, images, idx) ==
    IF idx >= Len(images) THEN [ok |-> TRUE, canvas |-> c]
    ELSE IF ~Opens(fs, images[idx + 1]) THEN [ok |-> FALSE, canvas |-> c]
    ELSE LET drawn == DrawImage(c, images[idx + 1], c.pagesize[1],
                                c.pagesize[2])
         IN  DrawPages(IF idx < Len(images) - 1 THEN ShowPage(drawn)
                       ELSE drawn,
                       fs, images, idx + 1)

\* the try block of save_as_pdf / create_pdf up to c.save(): whether it
\* got there, and the document c.save() has to write (images[0] raises
\* on an empty list)
Assemble(fs, images, dpi) ==
    IF images = <<>> \/ ~Opens(fs, images[1])
    THEN [ok |-> FALSE, doc |-> NoDoc]
    ELSE LET size == FileAt(fs, images[1]).dims
             c == Canvas(ToPoints(size[1], dpi), ToPoints(size[2], dpi))
             r == DrawPages(c, fs, images, 0)
         IN  IF r.ok THEN [ok |-> TRUE, doc |-> SaveCanvas(r.canvas)]
             ELSE [ok |-> FALSE, doc |-> NoDoc]

Range(seq) == {seq[k] : k \in 1..Len(seq)}

\* the first entry of scanner_devices with the given id (lines 258-262)
FindDevice(devices, id) ==
    IF \E k \in 1..Len(devices) : devices[k].id = id
    THEN devices[CHOOSE k \in 1..Len(devices) :
                    /\ devices[k].id = id
                    /\ \A j \in 1..(k - 1) : devices[j].id # id]
    ELSE NoDevice

\* the messages of the except block of scan_page / of scan_pages
ScanErrors ==
    {"Scan error: Image Capture command failed",
     "Scan error: No scanned image file found",
     "Scan error: No new scan file found on Desktop within 30 seconds",
     "Scan error: Unknown scanner type",
     "Scan error: timeout",
     "Scan error: cannot identify image file",
     "Scan error: osascript",
     "Scan error: scan_dir is None"}

NoCli == [pc |-> "off", page_num |-> 0, num_pages |-> 0, list |-> FALSE,
          exit_code |-> -1, devices |-> <<>>, raised |-> FALSE]

(***************************************************************************)
(* ScannerApp: construction and the handlers of the widgets                *)
(***************************************************************************)
\* ScannerApp.__init__, which ends with one refresh_scanners, on a host
\* where the probe and the query ended as given
InitGui(which, q) ==
    /\ frontend = "gui"
    /\ scanner_devices = RefreshedDevices(which, q)
    /\ status = IF RefreshRaises(which, q) THEN "Error"
                ELSE "Found scanning options"
    /\ dropdown_value = ""
    /\ selected_device = NoDevice
    /\ scanned_images = <<>>
    /\ scan_dir = 0
    /\ resolution = DefaultResolution
    /\ scan_btn_disabled = TRUE
    /\ save_pdf_btn_disabled = TRUE
    /\ clear_btn_disabled = TRUE
    /\ dirs = {}
    /\ made_dirs = 0
    /\ files = {}
    /\ desktop = {}
    /\ clock = 0
    /\ acq = [t \in Threads |-> IdleAcq]
    /\ output = NoDoc
    /\ saving = FALSE
    /\ cli = NoCli
    /\ last_dpi = 0

\* refresh_scanners
RefreshScanners ==
    /\ frontend = "gui"
    /\ \E which \in WhichOutcomes, q \in ListOutcomes :
          /\ scanner_devices' = RefreshedDevices(which, q)
          /\ status' = IF RefreshRaises(which, q) THEN "Error"
                       ELSE "Found scanning options"
    /\ UNCHANGED <<frontend, last_dpi, dropdown_value, selected_device,
                   scanned_images, scan_dir, resolution, scan_btn_disabled,
                   save_pdf_btn_disabled, clear_btn_disabled, dirs,
                   made_dirs, files, desktop, clock, acq, output, saving,
                   cli>>

\* the user picks an option of the dropdown; on_scanner_selected
OnScannerSelected(value) ==
    /\ frontend = "gui"
    /\ value \in {scanner_devices[k].id : k \in 1..Len(scanner_devices)}
    /\ dropdown_value' = value
    /\ IF value # ""
       THEN /\ selected_device' = FindDevice(scanner_devices, value)
            /\ scan_btn_disabled' = (selected_device' = NoDevice)
            /\ status' = IF selected_device' # NoDevice
                         THEN "Scanner ready"
                         ELSE "Invalid scanner selection"
       ELSE UNCHANGED <<selected_device, scan_btn_disabled, status>>
    /\ UNCHANGED <<frontend, last_dpi, scanner_devices, scanned_images,
                   scan_dir,
                   resolution, save_pdf_btn_disabled, clear_btn_disabled,
                   dirs, made_dirs, files, desktop, clock, acq, output,
                   saving, cli>>

\* the user picks a resolution; the dropdown has no handler
SetResolution(dpi) ==
    /\ frontend = "gui"
    /\ dpi # resolution
    /\ resolution' = dpi
    /\ UNCHANGED <<frontend, last_dpi, scanner_devices, dropdown_value,
                   selected_device, scanned_images, scan_dir,
                   scan_btn_disabled, save_pdf_btn_disabled,
                   clear_btn_disabled, status, dirs, made_dirs, files,
                   desktop, clock, acq, output, saving, cli>>

\* the user saves a file into the drop folder
UserSavesFile(name) ==
    /\ frontend = "gui"
    /\ name \notin desktop
    /\ desktop' = desktop \cup {name}
    /\ UNCHANGED <<frontend, last_dpi, scanner_devices, dropdown_value,
                   selected_device, scanned_images, scan_dir, resolution,
                   scan_btn_disabled, save_pdf_btn_disabled,
                   clear_btn_disabled, status, dirs, made_dirs, files,
                   clock, acq, output, saving, cli>>

\* outcome of subprocess.run(['osascript', '-e', ...], timeout=30)
ScriptOutcomes == {"token", "no_token", "timeout", "launch_fails"}

\* handle_applescript_scan goes on to handle_manual_import (lines 394-408);
\* only subprocess.TimeoutExpired is caught there
ScriptFallsThrough(outcome) == outcome \in {"token", "no_token", "timeout"}

\* FinishScan with the append moved before the steps that may raise
FinishScanAppendsFirst(t, error, fs, path) ==
    /\ files' = fs
    /\ scanned_images' = Append(scanned_images, path)
    /\ save_pdf_btn_disabled' = IF error = "" THEN FALSE
                                ELSE save_pdf_btn_disabled
    /\ clear_btn_disabled' = IF error = "" THEN FALSE
                             ELSE clear_btn_disabled
    /\ status' = IF error = "" THEN "Page scanned successfully" ELSE error
    /\ scan_btn_disabled' = FALSE
    /\ acq' = [acq EXCEPT ![t] = IdleAcq]

\* the end of scan_page: lines 324-330 when no exception was raised, the
\* except block otherwise, and the finally block in both cases
FinishScan(t, error, fs, path) ==
    /\ files' = fs
    /\ scanned_images' = IF error = "" THEN Append(scanned_images, path)
                         ELSE scanned_images
    /\ save_pdf_btn_disabled' = IF error = "" THEN FALSE
                                ELSE save_pdf_btn_disabled
    /\ clear_btn_disabled' = IF error = "" THEN FALSE
                             ELSE clear_btn_disabled
    /\ status' = IF error = "" THEN "Page scanned successfully" ELSE error
    /\ scan_btn_disabled' = FALSE
    /\ acq' = [acq EXCEPT ![t] = IdleAcq]

\* handle_manual_import up to its first sleep: the snapshot of the drop
\* folder (line 350)
StartWait(t, ts) ==
    /\ acq' = [acq EXCEPT ![t] = [pc |-> "poll", ts |-> ts, i |-> 0,
                                  initial_files |-> desktop,
                                  before |-> scanned_images,
                                  dir_before |-> scan_dir]]
    /\ scan_btn_disabled' = TRUE
    /\ status' = "Waiting for new scan file on Desktop"
    /\ UNCHANGED <<files, scanned_images, save_pdf_btn_disabled,
                   clear_btn_disabled>>

\* handle_imagecapture_cmd followed by the conversion, for one outcome of
\* the capture command
NativeScan(t, dir, ts, out) ==
    LET named == NativeName(ts)
        fs1 == BackendWrites(files, dir, named, OtherName(ts), out, ts)
        found == NativeFound(fs1, dir, named)
        png_path == Join(dir, ScanName(Len(scanned_images)))
    IN  IF out.exit = "timeout"
        THEN FinishScan(t, "Scan error: timeout", fs1, NoPath)
        ELSE IF out.exit = "nonzero"
        THEN FinishScan(t, "Scan error: Image Capture command failed",
                        fs1, NoPath)
        ELSE IF found = {}
        THEN FinishScan(t, "Scan error: No scanned image file found",
                        fs1, NoPath)
        ELSE \E f \in found :
               LET norm == Normalize(fs1, PathOf(f), png_path, ts)
               IN  FinishScan(t,
                              IF norm.ok THEN ""
                              ELSE "Scan error: cannot identify image file",
                              norm.files, png_path)

\* scan_page from the click to its end, or to the first sleep of the
\* manual wait
ScanPage(t) ==
    /\ frontend = "gui"
    /\ ~scan_btn_disabled
    /\ acq[t].pc = "idle"
    /\ \A u \in Threads : u < t => acq[u].pc # "idle"
    /\ clock < MaxScans
    /\ IF selected_device = NoDevice
       THEN /\ status' = "No scanner selected"
            /\ UNCHANGED <<scanned_images, scan_dir, scan_btn_disabled,
                           save_pdf_btn_disabled, clear_btn_disabled,
                           dirs, made_dirs, files, clock, acq>>
       ELSE LET dir == IF scan_dir = 0 THEN made_dirs + 1 ELSE scan_dir
                ts == clock + 1
            IN  /\ scan_dir' = dir
                /\ dirs' = dirs \cup {dir}
                /\ made_dirs' = IF scan_dir = 0 THEN made_dirs + 1
                                ELSE made_dirs
                /\ clock' = ts
                /\ CASE selected_device.id = "manual_import" ->
                          StartWait(t, ts)
                     [] selected_device.id = "image_capture_applescript" ->
                          \E outcome \in ScriptOutcomes :
                             IF ScriptFallsThrough(outcome)
                             THEN StartWait(t, ts)
                             ELSE FinishScan(t, "Scan error: osascript",
                                             files, NoPath)
                     [] StartsWithIc(selected_device.id) ->
                          \E out \in NativeOutcomes :
                             NativeScan(t, dir, ts, out)
                     [] OTHER ->
                          FinishScan(t, "Scan error: Unknown scanner type",
                                     files, NoPath)
    /\ last_dpi' = IF selected_device # NoDevice
                      /\ StartsWithIc(selected_device.id)
                   THEN resolution ELSE last_dpi
    /\ UNCHANGED <<frontend, scanner_devices, dropdown_value,
                   selected_device, resolution, desktop, output, saving,
                   cli>>

\* lines 364-371 of handle_manual_import for the file the loop found,
\* and then lines 309-339 of scan_page
ImportFile(t, new_file) ==
    LET ts == acq[t].ts
        png_path == Join(scan_dir, ScanName(Len(scanned_images)))
    IN  IF scan_dir = 0
        THEN FinishScan(t, "Scan error: scan_dir is None", files, NoPath)
        ELSE LET dest_path == Join(scan_dir, TempName(ts, new_file.ext))
                 copied == CopyIn(files, new_file, scan_dir, ts, ts)
                 norm == Normalize(copied, dest_path, png_path, ts)
             IN  FinishScan(t,
                    IF norm.ok THEN ""
                    ELSE "Scan error: cannot identify image file",
                    norm.files, png_path)

\* line 373 of handle_manual_import, and then the except and finally
\* blocks of scan_page
WaitTimesOut(t) ==
    FinishScan(t,
        "Scan error: No new scan file found on Desktop within 30 seconds",
        files, NoPath)

\* LoopEnds one iteration late
LoopEndsLate(i) == i + 1 > PollLimit

\* for i in range(30): iteration i was the last one
LoopEnds(i) == i + 1 >= PollLimit

\* one iteration of the loop of handle_manual_import (lines 356-371),
\* and what follows in scan_page when the loop ends
Poll(t) ==
    /\ acq[t].pc = "poll"
    /\ LET new_files == desktop \ acq[t].initial_files
       IN  IF \E new_file \in new_files : Recognized(new_file)
           THEN \E new_file \in new_files :
                  Recognized(new_file) /\ ImportFile(t, new_file)
           ELSE IF LoopEnds(acq[t].i)
           THEN WaitTimesOut(t)
           ELSE /\ acq' = [acq EXCEPT ![t].i = @ + 1]
                /\ UNCHANGED <<files, scanned_images,
                               save_pdf_btn_disabled, clear_btn_disabled,
                               status, scan_btn_disabled>>
    /\ UNCHANGED <<frontend, last_dpi, scanner_devices, dropdown_value,
                   selected_device, scan_dir, resolution, dirs, made_dirs,
                   desktop, clock, output, saving, cli>>

\* the whole loop of handle_manual_import in one step: the user saves the
\* files `saved` while the loop runs; the loop ends at the first poll
\* that sees a recognized new file, or after PollLimit polls
Wait(t, saved) ==
    /\ acq[t].pc = "poll"
    /\ acq[t].i = 0
    /\ saved \subseteq DesktopNames \ desktop
    /\ desktop' = desktop \cup saved
    /\ LET new_files == desktop' \ acq[t].initial_files
       IN  IF \E new_file \in new_files : Recognized(new_file)
           THEN \E new_file \in new_files :
                  Recognized(new_file) /\ ImportFile(t, new_file)
           ELSE WaitTimesOut(t)
    /\ UNCHANGED <<frontend, last_dpi, scanner_devices, dropdown_value,
                   selected_device, scan_dir, resolution, dirs, made_dirs,
                   clock, output, saving, cli>>

\* save_as_pdf up to its finally block
SaveAsPdf ==
    /\ frontend = "gui"
    /\ ~save_pdf_btn_disabled
    /\ ~saving
    /\ IF NoPages(scanned_images)
       THEN /\ status' = "No scanned pages to save"
            /\ UNCHANGED <<output, save_pdf_btn_disabled, saving>>
       ELSE \E s \in SaveOutcomes :
            LET r == Assemble(files, scanned_images, resolution)
            IN  /\ save_pdf_btn_disabled' = TRUE
                /\ saving' = TRUE
                /\ output' = IF r.ok THEN WrittenAt(output, r.doc, s)
                             ELSE output
                /\ status' = IF r.ok /\ s = "ok" THEN "PDF saved"
                             ELSE "Error saving PDF"
    /\ UNCHANGED <<frontend, last_dpi, scanner_devices, dropdown_value,
                   selected_device, scanned_images, scan_dir, resolution,
                   scan_btn_disabled, clear_btn_disabled, dirs, made_dirs,
                   files, desktop, clock, acq, cli>>

\* the finally block of save_as_pdf (lines 499-502)
SaveFinally ==
    /\ saving
    /\ saving' = FALSE
    /\ save_pdf_btn_disabled' = FALSE
    /\ UNCHANGED <<frontend, last_dpi, scanner_devices, dropdown_value,
                   selected_device, scanned_images, scan_dir, resolution,
                   scan_btn_disabled, clear_btn_disabled, status, dirs,
                   made_dirs, files, desktop, clock, acq, output, cli>>

\* clear_scans
ClearScans ==
    /\ frontend = "gui"
    /\ ~clear_btn_disabled
    /\ LET has_dir == scan_dir # 0 /\ scan_dir \in dirs
           removed == IF has_dir
                      THEN {f \in files :
                              PathOf(f) \notin Range(scanned_images)}
                      ELSE files
           rmdir_raises == has_dir /\ InDir(removed, scan_dir) # {}
       IN  /\ files' = removed
           /\ IF rmdir_raises
              THEN /\ status' = "Error clearing scans"
                   /\ UNCHANGED <<scanned_images, scan_dir, dirs,
                                  save_pdf_btn_disabled,
                                  clear_btn_disabled>>
              ELSE /\ dirs' = dirs \ {scan_dir}
                   /\ scanned_images' = <<>>
                   /\ scan_dir' = 0
                   /\ save_pdf_btn_disabled' = TRUE
                   /\ clear_btn_disabled' = TRUE
                   /\ status' = "Scans cleared"
    /\ UNCHANGED <<frontend, last_dpi, scanner_devices, dropdown_value,
                   selected_device, resolution, scan_btn_disabled,
                   made_dirs, desktop, clock, acq, output, saving, cli>>

(***************************************************************************)
(* scanner_cli.py                                                          *)
(***************************************************************************)
\* the start of main for one command line
InitCli ==
    /\ frontend = "cli"
    /\ \E n \in 0..MaxScans, l \in BOOLEAN :
          cli = [pc |-> "main", page_num |-> 0, num_pages |-> n,
                 list |-> l, exit_code |-> -1, devices |-> <<>>,
                 raised |-> FALSE]
    /\ resolution \in Resolutions
    /\ scanner_devices = <<>>
    /\ status = ""
    /\ dropdown_value = ""
    /\ selected_device = NoDevice
    /\ scanned_images = <<>>
    /\ scan_dir = 0
    /\ scan_btn_disabled = TRUE
    /\ save_pdf_btn_disabled = TRUE
    /\ clear_btn_disabled = TRUE
    /\ dirs = {}
    /\ made_dirs = 0
    /\ files = {}
    /\ desktop = {}
    /\ clock = 0
    /\ acq = [t \in Threads |-> IdleAcq]
    /\ output = NoDoc
    /\ saving = FALSE
    /\ last_dpi = 0

guiVars == <<scanner_devices, dropdown_value, selected_device,
             scan_btn_disabled, save_pdf_btn_disabled, clear_btn_disabled,
             desktop, acq, saving>>

\* main up to the call of list_scanners or of scan_pages (lines 258-301),
\* and scan_pages up to its loop (lines 67-76)
CliMain ==
    /\ frontend = "cli"
    /\ cli.pc = "main"
    /\ \E which \in WhichOutcomes :
          CASE which = "raises" ->
                 /\ cli' = [cli EXCEPT !.pc = "exit", !.raised = TRUE,
                                       !.exit_code = 1]
                 /\ UNCHANGED <<scan_dir, dirs, made_dirs, status>>
            [] which = "absent" ->
                 /\ cli' = [cli EXCEPT !.pc = "exit", !.exit_code = 1]
                 /\ status' = "Error: Image Capture command not found!"
                 /\ UNCHANGED <<scan_dir, dirs, made_dirs>>
            [] OTHER ->
                 IF cli.list
                 THEN /\ cli' = [cli EXCEPT !.pc = "list"]
                      /\ UNCHANGED <<scan_dir, dirs, made_dirs, status>>
                 ELSE /\ scan_dir' = made_dirs + 1
                      /\ dirs' = dirs \cup {made_dirs + 1}
                      /\ made_dirs' = made_dirs + 1
                      /\ cli' = [cli EXCEPT
                                   !.pc = IF cli.num_pages >= 1 THEN "scan"
                                          ELSE "scanned",
                                   !.page_num = 1]
                      /\ UNCHANGED status
    /\ UNCHANGED <<frontend, last_dpi, scanned_images, resolution, files,
                   clock,
                   output>>
    /\ UNCHANGED guiVars

\* list_scanners, called by main for --list, which then returns 0
CliListScanners ==
    /\ frontend = "cli"
    /\ cli.pc = "list"
    /\ \E which \in WhichOutcomes, q \in ListOutcomes :
          cli' = [cli EXCEPT
                    !.pc = "listed",
                    !.raised = ListScannersRaises(which),
                    !.devices = IF ListScannersRaises(which) THEN <<>>
                                ELSE ListScannersResult(which, q),
                    !.exit_code = IF ListScannersRaises(which) THEN 1
                                  ELSE 0]
    /\ UNCHANGED <<frontend, last_dpi, scanned_images, scan_dir, resolution,
                   status,
                   dirs, made_dirs, files, clock, output>>
    /\ UNCHANGED guiVars

\* glob(os.path.join(temp_dir, "*"))
GlobAll(fs, dir) == InDir(fs, dir)

\* the files scan_pages may take as the scanned one (lines 104-119)
CliFound(fs, dir, named) ==
    IF Exists(fs, Join(dir, named)) THEN {FileAt(fs, Join(dir, named))}
    ELSE Newest(GlobAll(fs, dir))

\* "convert to PNG if needed and rename consistently" (lines 121-129)
NormalizeCli(fs, src, png_path, now) ==
    LET f == FileAt(fs, src) IN
    IF Lower(src.name.ext) # "png"
    THEN IF ~Decodable(f) THEN [ok |-> FALSE, files |-> fs]
         ELSE [ok |-> TRUE,
               files |-> Remove(WriteFile(fs, [dir |-> png_path.dir,
                                  name |-> png_path.name, enc |-> "png",
                                  dims |-> f.dims, mtime |-> now]), src)]
    ELSE [ok |-> TRUE,
          files |-> WriteFile(Remove(fs, src),
                       [f EXCEPT !.dir = png_path.dir,
                                 !.name = png_path.name])]

\* the loop of scan_pages goes on with the next page, or ends
CliNextPage(c) ==
    IF c.page_num >= c.num_pages THEN [c EXCEPT !.pc = "scanned"]
    ELSE [c EXCEPT !.page_num = @ + 1]

\* one iteration of the loop of scan_pages (lines 78-139)
CliScanPage ==
    /\ frontend = "cli"
    /\ cli.pc = "scan"
    /\ \/ \* Ctrl+C at the prompt: KeyboardInterrupt reaches main
          /\ cli' = [cli EXCEPT !.pc = "exit", !.exit_code = 1]
          /\ status' = "Scan cancelled by user"
          /\ UNCHANGED <<scanned_images, files, clock, last_dpi>>
       \/ \E out \in NativeOutcomes :
            LET ts == clock + 1
                named == PageName(cli.page_num, ts)
                fs1 == BackendWrites(files, scan_dir, named, OtherName(ts),
                                     out, ts)
                found == CliFound(fs1, scan_dir, named)
                png_path == Join(scan_dir, ScanName(cli.page_num))
            IN  /\ clock' = ts
                /\ last_dpi' = resolution
                /\ IF out.exit = "timeout"
                   THEN /\ status' = "Scan error: timeout"
                        /\ cli' = [cli EXCEPT !.pc = "scanned"]
                        /\ files' = fs1
                        /\ UNCHANGED scanned_images
                   ELSE IF out.exit = "nonzero"
                   THEN /\ status' =
                             "Scan error: Image Capture command failed"
                        /\ cli' = CliNextPage(cli)
                        /\ files' = fs1
                        /\ UNCHANGED scanned_images
                   ELSE IF found = {}
                   THEN /\ status' =
                             "Scan error: No scanned image file found"
                        /\ cli' = CliNextPage(cli)
                        /\ files' = fs1
                        /\ UNCHANGED scanned_images
                   ELSE \E f \in found :
                          LET norm == NormalizeCli(fs1, PathOf(f),
                                                   png_path, ts)
                          IN  /\ files' = norm.files
                              /\ IF norm.ok
                                 THEN /\ scanned_images' =
                                           Append(scanned_images, png_path)
                                      /\ status' =
                                           "Page scanned successfully"
                                      /\ cli' = CliNextPage(cli)
                                 ELSE /\ status' =
                                           "Scan error: cannot identify image file"
                                      /\ cli' = [cli EXCEPT
                                                   !.pc = "scanned"]
                                      /\ UNCHANGED scanned_images
    /\ UNCHANGED <<frontend, scan_dir, resolution, dirs, made_dirs,
                   output>>
    /\ UNCHANGED guiVars

\* create_pdf: whether it returned True, and the document at output_file
CreatePdf(fs, images, out, dpi, s) ==
    IF NoPages(images) THEN [success |-> FALSE, output |-> out]
    ELSE LET r == Assemble(fs, images, dpi)
         IN  [success |-> r.ok /\ s = "ok",
              output |-> IF r.ok THEN WrittenAt(out, r.doc, s) ELSE out]

\* cleanup_temp_files: the files and the directories afterwards
CleanupTempFiles(fs, ds, temp_dir, images) ==
    LET removed == {f \in fs : PathOf(f) \notin Range(images)}
    IN  [files |-> removed,
         dirs |-> IF temp_dir \in ds /\ InDir(removed, temp_dir) = {}
                  THEN ds \ {temp_dir} ELSE ds]

\* main after scan_pages returned (lines 303-313)
CliAssemble ==
    /\ frontend = "cli"
    /\ cli.pc = "scanned"
    /\ IF NoPages(scanned_images)
       THEN /\ status' = "No pages were scanned!"
            /\ cli' = [cli EXCEPT !.pc = "exit", !.exit_code = 1]
            /\ UNCHANGED <<output, files, dirs>>
       ELSE \E s \in SaveOutcomes :
            LET r == CreatePdf(files, scanned_images, output, resolution,
                               s)
                c == CleanupTempFiles(files, dirs, scan_dir,
                                      scanned_images)
            IN  /\ output' = r.output
                /\ files' = c.files
                /\ dirs' = c.dirs
                /\ status' = IF r.success THEN "PDF saved"
                             ELSE "Error creating PDF"
                /\ cli' = [cli EXCEPT !.pc = "exit",
                             !.exit_code = IF r.success THEN 0 ELSE 1]
    /\ UNCHANGED <<frontend, last_dpi, scanned_images, scan_dir, resolution,
                   made_dirs, clock>>
    /\ UNCHANGED guiVars

(***************************************************************************)
(* Specifications                                                          *)
(***************************************************************************)
\* no handler of the window is between its first and its last statement
NoHandlerRunning == Running = {} /\ ~saving

\* a host with one native device, so that every kind of device is listed
OneDeviceHost == [kind |-> "ok", stdout |-> <<"Devices:", "EPSON D35">>]

\* the ids the dropdown offers
Options == {scanner_devices[k].id : k \in 1..Len(scanner_devices)}

\* what the user saves into the drop folder during one wait of Spec: no
\* file or one file
SavedInOneWait == {{}} \cup {{name} : name \in DesktopNames}

\* Spec: one session at the default resolution; the window handles one
\* event at a time, a manual wait is one step, and the drop folder
\* changes during the waits only
Init ==
    \/ InitGui("present", OneDeviceHost)
    \/ InitCli /\ ~cli.list

Next ==
    \/ \E value \in Options : NoHandlerRunning /\ OnScannerSelected(value)
    \/ \E t \in Threads : NoHandlerRunning /\ ScanPage(t)
    \/ \E t \in Threads, saved \in SavedInOneWait : Wait(t, saved)
    \/ NoHandlerRunning /\ SaveAsPdf
    \/ SaveFinally
    \/ NoHandlerRunning /\ ClearScans
    \/ CliMain
    \/ CliScanPage
    \/ CliAssemble

Spec == Init /\ [][Next]_vars

\* SpecEnum: enumeration and selection on every host
InitEnum ==
    \/ \E which \in WhichOutcomes, q \in ListOutcomes : InitGui(which, q)
    \/ InitCli

NextEnum ==
    \/ RefreshScanners
    \/ \E value \in Options : OnScannerSelected(value)
    \/ CliMain
    \/ CliListScanners

SpecEnum == InitEnum /\ [][NextEnum]_vars

\* SpecAssemble: pages of any size, assembled at any resolution
NextAssemble ==
    \/ \E value \in Options : NoHandlerRunning /\ OnScannerSelected(value)
    \/ \E dpi \in Resolutions : NoHandlerRunning /\ SetResolution(dpi)
    \/ \E t \in Threads : NoHandlerRunning /\ ScanPage(t)
    \/ NoHandlerRunning /\ SaveAsPdf
    \/ SaveFinally
    \/ CliMain
    \/ CliScanPage
    \/ CliAssemble

SpecAssemble == Init /\ [][NextAssemble]_vars

\* SpecWait: the manual wait poll by poll, the user saving files at any
\* moment
NextWait ==
    \/ \E value \in Options : NoHandlerRunning /\ OnScannerSelected(value)
    \/ \E t \in Threads : NoHandlerRunning /\ ScanPage(t)
    \/ \E t \in Threads : Poll(t)
    \/ \E name \in DesktopNames : UserSavesFile(name)

SpecWait == InitGui("present", OneDeviceHost) /\ [][NextWait]_vars

\* SpecEvents: the handlers as the window dispatches them, each on its
\* own thread, so that an event may arrive while a handler runs; nobody
\* saves a file into the drop folder
NextEvents ==
    \/ \E value \in Options : OnScannerSelected(value)
    \/ \E t \in Threads : ScanPage(t)
    \/ \E t \in Threads : Wait(t, {})
    \/ SaveAsPdf
    \/ SaveFinally
    \/ ClearScans
    \/ CliMain
    \/ CliScanPage
    \/ CliAssemble

SpecEvents == Init /\ [][NextEvents]_vars

(***************************************************************************)
(* Steps the properties speak about                                        *)
(***************************************************************************)
\* thread t ends an acquisition of the window in this step
GuiAcquisitionEnds(t) ==
    /\ acq'[t].pc = "idle"
    /\ \/ ScanPage(t) /\ clock' # clock
       \/ Poll(t)
       \/ \E saved \in SUBSET DesktopNames : Wait(t, saved)

\* the page list when the acquisition that thread t ends was started
PagesBefore(t) ==
    IF acq[t].pc = "poll" THEN acq[t].before ELSE scanned_images

\* the command line ends the acquisition of one page in this step
CliAcquisitionEnds == CliScanPage /\ clock' # clock

Succeeded == status' = "Page scanned successfully"
Failed == status' \in ScanErrors

\* the session of the command line lasts until main cleans up or returns
SessionOpen == frontend = "gui" \/ cli.pc \in {"scan", "scanned"}

(***************************************************************************)
(* Properties                                                              *)
(***************************************************************************)
\* C1: on every host (capture command present or absent, device query
\* succeeding, printing nothing, failing, timing out or raising) the
\* enumeration completes and yields a non-empty list that holds the
\* manual-handoff descriptor, in the window and on the command line.
\* The code does not do this: a raising probe leaves the list empty.
C1_EnumerationNeverEmpty ==
    /\ frontend = "gui" =>
          /\ scanner_devices # <<>>
          /\ ManualDevice \in Range(scanner_devices)
    /\ (frontend = "cli" /\ cli.pc = "listed") =>
          /\ ~cli.raised
          /\ cli.devices # <<>>

\* C2: an acquisition that fails, whatever the cause, leaves the page
\* list as it was when the acquisition started.
C2_FailedAcquisitionKeepsPages ==
    [][/\ \A t \in Threads :
             (GuiAcquisitionEnds(t) /\ Failed) =>
                 scanned_images' = PagesBefore(t)
       /\ (CliAcquisitionEnds /\ Failed) =>
             scanned_images' = scanned_images]_vars

\* a failed acquisition with pages already in the list
C2_Witness ==
    /\ status = "Scan error: cannot identify image file"
    /\ Len(scanned_images) >= 1

\* the new last entry p of the page list is an existing PNG file of the
\* scratch directory, and the entries before it are those of `before`
AppendedPage(before, after, fs, dir, ds) ==
    /\ Len(after) = Len(before) + 1
    /\ SubSeq(after, 1, Len(before)) = before
    /\ LET p == after[Len(after)]
       IN  /\ Exists(fs, p)
           /\ p.dir = dir
           /\ dir \in ds
           /\ p.name.ext = "png"
           /\ FileAt(fs, p).enc = "png"

C4_PagesExistInScratchDir ==
    SessionOpen =>
        \A k \in 1..Len(scanned_images) :
            /\ Exists(files, scanned_images[k])
            /\ scanned_images[k].dir = scan_dir
            /\ scan_dir \in dirs

\* C5: clear_scans removes every tracked page file and the scratch
\* directory; the next acquisition makes a directory that never existed
\* before, and an acquisition without a clear before it keeps the
\* directory. The code does not do the first when rmdir fails.
C5_ClearRemovesPagesAndDirectory ==
    [][/\ ClearScans =>
             /\ \A k \in 1..Len(scanned_images) :
                   ~Exists(files', scanned_images[k])
             /\ scan_dir \notin dirs'
             /\ scan_dir' = 0
       /\ \A t \in Threads :
             (ScanPage(t) /\ clock' # clock) =>
                 IF scan_dir = 0
                 THEN scan_dir' > made_dirs /\ scan_dir' \in dirs'
                 ELSE scan_dir' = scan_dir]_vars

\* save_as_pdf or create_pdf saved a document in this step
DocumentSaved ==
    /\ SaveAsPdf \/ CliAssemble
    /\ status' = "PDF saved"

\* page k of the document holds one image, that of entry k of the list
ShowsInOrder(doc, images) ==
    /\ doc.written
    /\ Len(doc.pages) = Len(images)
    /\ \A k \in 1..Len(images) :
          /\ Len(doc.pages[k].content) = 1
          /\ doc.pages[k].content[1].image = images[k]

\* C6: the assembly of a non-empty page list writes one output page per
\* entry, and output page k shows entry k of the page list.
C6_OnePagePerEntryInOrder ==
    [][DocumentSaved => ShowsInOrder(output', scanned_images)]_vars

\* a document of three pages was saved
C6_Witness ==
    /\ status = "PDF saved"
    /\ Len(scanned_images) = 3
    /\ Len(output.pages) = 3

\* the fraction q equals pixels * 72 / dpi
IsPoints(q, pixels, dpi) == q[1] * dpi = pixels * PointsPerInch * q[2]

\* every page of the document has the size that the pixel size `first`
\* gives at the resolution dpi, and its image is drawn at that size
GeometryOfFirstPage(doc, first, dpi) ==
    \A k \in 1..Len(doc.pages) :
        /\ IsPoints(doc.pages[k].size[1], first[1], dpi)
        /\ IsPoints(doc.pages[k].size[2], first[2], dpi)
        /\ \A n \in 1..Len(doc.pages[k].content) :
              /\ doc.pages[k].content[n].width = doc.pages[k].size[1]
              /\ doc.pages[k].content[n].height = doc.pages[k].size[2]

LetterInPoints == <<Frac(612, 1), Frac(792, 1)>>

\* C7: every page of the assembled document is w*72/dpi by h*72/dpi
\* points, (w, h) being the pixel size of the first page and dpi the
\* resolution given to the assembly, whatever the sizes of the later
\* pages; a first page of 2550x3300 pixels at 300 DPI gives pages of
\* 612x792 points.
C7_GeometryFromFirstPage ==
    [][DocumentSaved =>
         LET first == FileAt(files, scanned_images[1]).dims
         IN  /\ GeometryOfFirstPage(output', first, resolution)
             /\ (first = <<2550, 3300>> /\ resolution = 300) =>
                   \A k \in 1..Len(output'.pages) :
                       output'.pages[k].size = LetterInPoints]_vars

\* three pages saved at 300 DPI, the first one 2550x3300 pixels, the
\* second one of another size
C7_Witness ==
    /\ status = "PDF saved"
    /\ resolution = 300
    /\ Len(scanned_images) = 3
    /\ Len(output.pages) = 3
    /\ \A k \in 1..3 : Exists(files, scanned_images[k])
    /\ FileAt(files, scanned_images[1]).dims = <<2550, 3300>>
    /\ FileAt(files, scanned_images[2]).dims = <<1275, 1650>>
    /\ output.pages[2].size = LetterInPoints

\* C8: an assembly requested with an empty page list ends with the
\* EmptyInput outcome ("No scanned pages to save" in the window; on the
\* command line create_pdf returns False and main reports that no page
\* was scanned and returns 1), writes no document and leaves the session
\* as it was.
C8_EmptyInputWritesNothing ==
    [][/\ (SaveAsPdf /\ scanned_images = <<>>) =>
             /\ status' = "No scanned pages to save"
             /\ UNCHANGED <<output, scanned_images, scan_dir, files, dirs>>
       /\ (CliAssemble /\ scanned_images = <<>>) =>
             /\ \A s \in SaveOutcomes :
                   /\ ~CreatePdf(files, scanned_images, output,
                                 resolution, s).success
                   /\ CreatePdf(files, scanned_images, output,
                                resolution, s).output = output
             /\ status' = "No pages were scanned!"
             /\ cli'.exit_code = 1
             /\ UNCHANGED <<output, scanned_images, scan_dir, files,
                            dirs>>]_vars

\* the window answered a save request on an empty page list
C8_Witness ==
    /\ frontend = "gui"
    /\ status = "No scanned pages to save"
    /\ scanned_images = <<>>

\* C9: while an acquisition runs the scan button stays disabled, so
\* that under every interleaving of the events of the window no second
\* acquisition starts before the first one has ended.
\* The code does not keep this: on_scanner_selected enables the button
\* while scan_page waits.
C9_OneAcquisitionAtATime == Cardinality(Running) <= 1

NoScanProduced ==
    "Scan error: No new scan file found on Desktop within 30 seconds"

\* C10: a manual wait always ends, after at most 30 polls: while it
\* lasts fewer than 30 polls have been made, a poll that sees a
\* recognized new file ends it at once, a poll that sees none counts one
\* more poll, and a 30th poll that sees none ends it with NoScanProduced
\* and the page list as it was.
C10_ManualWaitIsBounded ==
    [][\A t \in Threads :
         /\ acq[t].pc = "poll" => acq[t].i < 30
         /\ Poll(t) =>
              LET sees == \E n \in desktop \ acq[t].initial_files :
                              Recognized(n)
                  polls == acq[t].i + 1
              IN  /\ polls <= 30
                  /\ sees => acq'[t].pc = "idle" /\ status' # NoScanProduced
                  /\ (~sees /\ polls < 30) =>
                        acq'[t].pc = "poll" /\ acq'[t].i = polls
                  /\ (~sees /\ polls = 30) =>
                        /\ acq'[t].pc = "idle"
                        /\ status' = NoScanProduced
                        /\ scanned_images' = acq[t].before]_vars

\* a wait ran out with pages in the list
C10_Witness ==
    /\ status = NoScanProduced
    /\ Len(scanned_images) >= 1
    /\ Running = {}

\* main returned: the exit code is cli.exit_code
CliReturned == frontend = "cli" /\ cli.pc = "exit"

\* C11: the command line returns 0 only when every requested page was
\* acquired and the document was assembled, and returns 1 after any
\* failure (a page that failed or timed out, no page produced, a failed
\* assembly, a cancellation).
\* The code does not do this: a run that lost a page still returns 0.
C11_ExitZeroOnlyOnFullSuccess ==
    CliReturned =>
        /\ cli.exit_code \in {0, 1}
        /\ cli.exit_code = 0 <=>
              /\ ~cli.raised
              /\ Len(scanned_images) = cli.num_pages
              /\ status = "PDF saved"
              /\ output.written

\* save_as_pdf or create_pdf ran on a non-empty page list in this step
AssemblyRuns == (SaveAsPdf \/ CliAssemble) /\ scanned_images # <<>>

\* C12: an assembly that fails, at whatever step, leaves at the target
\* path what was there before; an assembly that succeeds leaves a whole
\* document; the target path never holds a partly written file.
\* The code does not keep this: c.save() writes to the target path itself.
C12_NoPartialDocument ==
    [][AssemblyRuns =>
         IF status' = "PDF saved"
         THEN output'.written /\ output'.whole
         ELSE output' = output]_vars

\* the scratch directory field when the acquisition that thread t ends
\* was started
DirBefore(t) == IF acq[t].pc = "poll" THEN acq[t].dir_before ELSE scan_dir

\* C13: a failed acquisition leaves the session as it was before the
\* call: the page list, the scratch directory field (absent stays
\* absent) and the files inside the scratch directory.
\* The code does not do this: scan_page makes the directory before it
\* tries, and a source file that cannot be decoded stays behind.
C13_FailedAcquisitionLeavesSession ==
    [][/\ \A t \in Threads :
             (GuiAcquisitionEnds(t) /\ Failed) =>
                 /\ scanned_images' = PagesBefore(t)
                 /\ scan_dir' = DirBefore(t)
                 /\ files' = files
       /\ (CliAcquisitionEnds /\ Failed) =>
             UNCHANGED <<scanned_images, scan_dir, files>>]_vars

\* the descriptors of the devices the host printed from line k on, one
\* per device line, in the order of the lines
RECURSIVE ReportedFrom(_, _)
ReportedFrom(stdout, k) ==
    IF k > Len(stdout) THEN <<>>
    ELSE IF Strip(stdout[k]) = "" \/ stdout[k] = "Devices:"
    THEN ReportedFrom(stdout, k + 1)
    ELSE <<[id |-> IcId(Strip(stdout[k])),
            name |-> IcLabel(Strip(stdout[k])),
            type |-> "scanner"]>> \o ReportedFrom(stdout, k + 1)

\* what the host reported: nothing unless the command is there and the
\* query succeeded
Reported(which, q) ==
    IF which = "present" /\ q.kind = "ok" THEN ReportedFrom(q.stdout, 1)
    ELSE <<>>

\* C14: the list of the window holds the native devices first, in the
\* order the host reported them, then exactly one automation-script
\* descriptor, then exactly one manual-handoff descriptor as its last
\* entry, after any number of refreshes.
\* The code does not do this on a host where the probe or the query
\* raises: the list is then empty.
C14_EnumerationOrder ==
    frontend = "gui" =>
        LET n == Len(scanner_devices) IN
        /\ n >= 2
        /\ scanner_devices[n] = ManualDevice
        /\ scanner_devices[n - 1] = AppleScriptDevice
        /\ \A k \in 1..(n - 2) :
              /\ scanner_devices[k] \notin {ManualDevice, AppleScriptDevice}
              /\ StartsWithIc(scanner_devices[k].id)
        /\ \E which \in WhichOutcomes, q \in ListOutcomes :
              SubSeq(scanner_devices, 1, n - 2) = Reported(which, q)
        /\ \A which \in WhichOutcomes, q \in ListOutcomes :
              ~RefreshRaises(which, q) =>
                  RefreshedDevices(which, q) =
                      Reported(which, q)
                          \o <<AppleScriptDevice, ManualDevice>>

\* AttrNames with an attribute named scanner
AttrNamesWithScanner ==
    {"page", "scanner_devices", "selected_device", "scanned_images",
     "scan_dir", "scan_counter", "status_text", "scanner_dropdown",
     "scan_count_text", "refresh_btn", "scan_btn", "save_pdf_btn",
     "clear_btn", "progress_bar", "resolution_dropdown", "mode_dropdown",
     "build_ui", "update_status", "refresh_scanners",
     "on_scanner_selected", "scan_page", "handle_manual_import",
     "handle_applescript_scan", "handle_imagecapture_cmd", "save_as_pdf",
     "clear_scans", "scanner"}

\* the names a ScannerApp object has: the attributes __init__ assigns
\* and the methods of the class
AttrNames ==
    {"page", "scanner_devices", "selected_device", "scanned_images",
     "scan_dir", "scan_counter", "status_text", "scanner_dropdown",
     "scan_count_text", "refresh_btn", "scan_btn", "save_pdf_btn",
     "clear_btn", "progress_bar", "resolution_dropdown", "mode_dropdown",
     "build_ui", "update_status", "refresh_scanners",
     "on_scanner_selected", "scan_page", "handle_manual_import",
     "handle_applescript_scan", "handle_imagecapture_cmd", "save_as_pdf",
     "clear_scans"}

\* app.<name> does not raise AttributeError
HasAttr(name) == name \in AttrNames

\* app.<name> for the attributes that hold the session
GetAttr(name) ==
    CASE name = "selected_device" -> selected_device
      [] name = "scanned_images" -> scanned_images
      [] name = "scan_dir" -> scan_dir
      [] name = "scanner_devices" -> scanner_devices

\* the window was constructed and no option was picked since
JustConstructed == frontend = "gui" /\ dropdown_value = ""

C16_ClearAlwaysResetsSession ==
    [][ClearScans =>
         /\ status' \in {"Scans cleared", "Error clearing scans"}
         /\ scanned_images' = <<>>
         /\ scan_dir' = 0]_vars

\* the document's first page has the size that the first image gives at
\* the resolution dpi
AssembledAt(doc, first, dpi) ==
    doc.pages[1].size = <<ToPoints(first[1], dpi), ToPoints(first[2], dpi)>>

\* C17: in the window, the resolution that gives the assembled document
\* its geometry is the resolution of the last-used scan settings, the
\* one the capture command was last run with, whatever settings changes,
\* acquisitions and saves came before.
\* The code does not do this: save_as_pdf reads the dropdown when it runs.
C17_AssemblesAtScannedResolution ==
    [][(SaveAsPdf /\ status' = "PDF saved" /\ last_dpi # 0) =>
         AssembledAt(output', FileAt(files, scanned_images[1]).dims,
                     last_dpi)]_vars

\* C18: an acquisition with the automation-script device goes on to the
\* manual wait whatever the scripted trigger did (token, no token or
\* non-zero exit, timeout, script host not launched); the trigger alone
\* never makes the acquisition fail.
\* The code does not do this when the script host cannot be launched.
C18_ScriptAlwaysFallsThrough ==
    [][\A t \in Threads :
         (/\ ScanPage(t)
          /\ clock' # clock
          /\ selected_device = AppleScriptDevice) =>
             /\ acq'[t].pc = "poll"
             /\ acq'[t].initial_files = desktop
             /\ ~Failed]_vars

\* the paths of the files fs
Paths(fs) == {PathOf(f) : f \in fs}

\* the page appended to `before` is stored at scan_<count>.png in the
\* directory dir, count being the number of pages before it, and the
\* acquisition left no other new file behind
StoredCanonically(before, after, fs, fs2, dir) ==
    LET p == after[Len(after)]
    IN  /\ p = Join(dir, ScanName(Len(before)))
        /\ Paths(fs2) = Paths(fs) \cup {p}

\* C19: in both front ends a successful acquisition stores the page at
\* scan_<NNN>.png, NNN being the page count of the session when the page
\* was acquired, also after failed acquisitions, and the file it was
\* made from is gone unless it is that path.
\* The code of the command line does not do this: it numbers the file
\* with the loop counter.
C19_CanonicalPathIsPageCount ==
    [][/\ \A t \in Threads :
             (GuiAcquisitionEnds(t) /\ Succeeded) =>
                 StoredCanonically(PagesBefore(t), scanned_images', files,
                                   files', scan_dir')
       /\ (CliAcquisitionEnds /\ Succeeded) =>
             StoredCanonically(scanned_images, scanned_images', files,
                               files', scan_dir')]_vars

\* the file f is what the import of the drop-folder file n leaves in the
\* scratch directory: the page made from it, or its copy when it cannot
\* be decoded
LeftBy(f, n, ts) ==
    /\ f.dims = DesktopDims(n)
    /\ IF DesktopEnc(n) \in {"jpeg", "png"}
       THEN f.enc = "png" /\ f.name.base = "scan"
       ELSE f.enc = DesktopEnc(n) /\ f.name = TempName(ts, n.ext)

\* the names a wait may import: absent from its snapshot, and with one
\* of the recognized extensions
Importable(t) ==
    {n \in desktop \ acq[t].initial_files : Lower(n.ext) \in RecognizedExts}

\* C20: the snapshot of a manual wait is the drop folder at its start;
\* every file the wait brings into the scratch directory comes from a
\* name that is absent from the snapshot and has a recognized extension;
\* while there is no such name, a poll imports nothing and does not end
\* the wait (only the 30th poll ends it, with NoScanProduced).
C20_ImportsOnlyNewRecognizedFiles ==
    [][\A t \in Threads :
         /\ (ScanPage(t) /\ acq'[t].pc = "poll") =>
               acq'[t].initial_files = desktop
         /\ Poll(t) =>
               /\ acq'[t].initial_files \in {acq[t].initial_files, {}}
               /\ \A f \in files' \ files :
                     \E n \in Importable(t) : LeftBy(f, n, acq[t].ts)
               /\ Importable(t) = {} =>
                     /\ files' = files
                     /\ scanned_images' = scanned_images
                     /\ \/ acq'[t].pc = "poll"
                        \/ acq[t].i = PollLimit - 1
                           /\ status' = NoScanProduced]_vars

\* a wait is still running after its 29th poll although the folder holds
\* a recognized file that was there at the snapshot and a new file with
\* an unrecognized extension
C20_Witness ==
    \E t \in Threads :
        /\ acq[t].pc = "poll"
        /\ acq[t].i = PollLimit - 1
        /\ [base |-> "Scan", num |-> 1, ext |-> "jpg"]
               \in acq[t].initial_files
        /\ [base |-> "notes", num |-> 4, ext |-> "txt"]
               \in desktop \ acq[t].initial_files

\* the step leaves every tracked page file that exists where and as it is
TrackedPagesUntouched ==
    \A k \in 1..Len(scanned_images) :
        Exists(files, scanned_images[k]) =>
            /\ Exists(files', scanned_images[k])
            /\ FileAt(files', scanned_images[k]) =
                  FileAt(files, scanned_images[k])

\* no path occurs twice in the page list
PairwiseDistinct(images) ==
    \A j, k \in 1..Len(images) : j # k => images[j] # images[k]

\* C21: no acquisition deletes, renames or overwrites a page file that
\* the page list tracks, also when the capture command exits with
\* success without a file and the newest file of the directory is taken
\* instead; the entries of the page list are pairwise distinct.
\* The code of the command line does not keep the first: its fallback
\* takes a tracked page and renames it.
C21_AcquisitionKeepsTrackedPages ==
    [][((\E t \in Threads : GuiAcquisitionEnds(t)) \/ CliAcquisitionEnds) =>
          /\ TrackedPagesUntouched
          /\ PairwiseDistinct(scanned_images')]_vars

\* C22: in the window, whenever a device is selected, its id is the id
\* of an entry of the current device list, also after a later refresh
\* on which the host reports other devices.
\* The code does not keep this: refresh_scanners rebuilds the list and
\* leaves the selection and the scan button as they were.
C22_SelectedDeviceIsListed ==
    (frontend = "gui" /\ selected_device # NoDevice) =>
        \E k \in 1..Len(scanner_devices) :
            scanner_devices[k].id = selected_device.id

\* C23: when main returns from a run of the command line that made a
\* scratch directory, whatever the exit path (success, failed assembly,
\* no page scanned, page error or timeout, cancellation), the directory
\* and every file in it are gone.
\* The code does not do this: main cleans up only after create_pdf ran,
\* and cleanup_temp_files removes the tracked pages only.
C23_CliLeavesNoScratchFiles ==
    (CliReturned /\ scan_dir # 0) =>
        /\ scan_dir \notin dirs
        /\ InDir(files, scan_dir) = {}

====
